---- MODULE Spec2Model ----
(***************************************************************************)
(* Model of codesitter's analyzer registry                                 *)
(* (src/codesitter/analyzers/registry.py).                                 *)
(*                                                                         *)
(* Python strings that the code takes apart (file names, extensions) are   *)
(* sequences of one-character strings; language names and class names,     *)
(* which the code only uses as keys, are TLA+ strings.  An Optional value  *)
(* is a sequence of length 0 (None) or 1.  A dict that the code iterates   *)
(* is a sequence of [key, val] records in insertion order.                 *)
(***************************************************************************)
EXTENDS Integers, Sequences, FiniteSets, TLC

VARIABLES
    analyzers,      \* AnalyzerRegistry._analyzers (of the global _registry)
    extension_map,  \* AnalyzerRegistry._extension_map
    regLog,         \* history: every analyzer passed to register, in call order
    lastOp,         \* history: the operation that ran last, with its input and result
    nOps,           \* number of register / register_defaults / auto_discover calls so far
    filename,       \* SplitSpec: the path handed to the extension derivation
    ext,            \* SplitSpec: Optional derived extension
    pc              \* SplitSpec: "start" | "done"

vars == <<analyzers, extension_map, regLog, lastOp, nOps, filename, ext, pc>>

regVars == <<analyzers, extension_map, regLog, lastOp, nOps>>

splitVars == <<filename, ext, pc>>

-----------------------------------------------------------------------------
(* Bounds *)

\* registering calls (register, register_defaults, auto_discover) in one run
MaxOps == 3

\* longest path handed to the extension derivation in SplitSpec
MaxPathLen == 5

-----------------------------------------------------------------------------
(* Optional values and strings *)

None == <<>>

Some(x) == <<x>>

LowerLetters == <<"a","b","c","d","e","f","g","h","i","j","k","l","m",
                  "n","o","p","q","r","s","t","u","v","w","x","y","z">>

UpperLetters == <<"A","B","C","D","E","F","G","H","I","J","K","L","M",
                  "N","O","P","Q","R","S","T","U","V","W","X","Y","Z">>

\* str.lower() on one character
LowerChar(c) ==
    IF \E i \in 1..Len(UpperLetters) : UpperLetters[i] = c
    THEN LowerLetters[CHOOSE i \in 1..Len(UpperLetters) : UpperLetters[i] = c]
    ELSE c

\* str.lower()
lower(s) == [i \in 1..Len(s) |-> LowerChar(s[i])]

\* str.upper() on one character, used to build the inputs of lookups
UpperChar(c) ==
    IF \E i \in 1..Len(LowerLetters) : LowerLetters[i] = c
    THEN UpperLetters[CHOOSE i \in 1..Len(LowerLetters) : LowerLetters[i] = c]
    ELSE c

upper(s) == [i \in 1..Len(s) |-> UpperChar(s[i])]

\* str.rfind(c), 1-based; 0 when c does not occur (Python: -1)
rfind(p, c) ==
    IF \E i \in 1..Len(p) : p[i] = c
    THEN CHOOSE i \in 1..Len(p) : p[i] = c /\ \A j \in (i+1)..Len(p) : p[j] # c
    ELSE 0

\* The while loop of genericpath._splitext: the first character of the final
\* segment before the last dot that is not itself a dot makes the split happen.
RECURSIVE splitext_loop(_, _, _)
splitext_loop(p, filenameIndex, dotIndex) ==
    IF filenameIndex < dotIndex
    THEN IF p[filenameIndex] # "."
         THEN <<SubSeq(p, 1, dotIndex - 1), SubSeq(p, dotIndex, Len(p))>>
         ELSE splitext_loop(p, filenameIndex + 1, dotIndex)
    ELSE <<p, <<>>>>

\* splitext with a defect: it splits at the first dot of the final segment.
\* C8 does not hold of it.
splitext_firstdot(p) ==
    LET sepIndex == rfind(p, "/")
        seg      == SubSeq(p, sepIndex + 1, Len(p))
    IN  IF \E i \in 1..Len(seg) : seg[i] = "."
        THEN LET d == CHOOSE i \in 1..Len(seg) : seg[i] = "." /\ \A j \in 1..(i-1) : seg[j] # "."
             IN  <<SubSeq(p, 1, sepIndex + d - 1), SubSeq(seg, d, Len(seg))>>
        ELSE <<p, <<>>>>

\* os.path.splitext (posixpath: sep "/", no altsep, extsep "."), as <<root, ext>>
splitext(p) ==
    LET sepIndex == rfind(p, "/")
        dotIndex == rfind(p, ".")
    IN  IF dotIndex > sepIndex
        THEN splitext_loop(p, sepIndex + 1, dotIndex)
        ELSE <<p, <<>>>>

\* registry.py line 55: ext = os.path.splitext(filename)[1].lower()
derive_ext(path) == lower(splitext(path)[2])

-----------------------------------------------------------------------------
(* Extensions and analyzers *)

E_py   == <<".", "p", "y">>
E_pyi  == <<".", "p", "y", "i">>
E_pyx  == <<".", "p", "y", "x">>
E_rs   == <<".", "r", "s">>
E_d_ts == <<".", "d", ".", "t", "s">>
E_txt  == <<".", "t", "x", "t">>
E_go   == <<".", "g", "o">>
E_zig  == <<".", "z", "i", "g">>
E_plg  == <<".", "p", "l", "g">>

\* A LanguageAnalyzer instance as the registry sees it: its identity (id), its
\* type (cls), type(a).__name__ (class_name) and the two properties of the
\* analyzer contract.
Analyzer(id, cls, class_name, language_name, supported_extensions) ==
    [id |-> id, cls |-> cls, class_name |-> class_name,
     language_name |-> language_name, supported_extensions |-> supported_extensions]

\* The instances the host may hand to register_analyzer.
CustomAnalyzers ==
    { Analyzer(<<"py1", 0>>, "plugin_a.PyAnalyzer", "PyAnalyzer", "python", <<E_py, E_pyi>>),
      Analyzer(<<"py2", 0>>, "plugin_b.PyAnalyzer", "PyAnalyzer", "python", <<E_pyi>>),
      Analyzer(<<"cy1", 0>>, "plugin_b.PyAnalyzer", "PyAnalyzer", "cython", <<E_pyx, E_py>>),
      Analyzer(<<"rs1", 0>>, "RustAnalyzer", "RustAnalyzer", "rust", <<E_rs>>),
      Analyzer(<<"ts1", 0>>, "TsAnalyzer", "TsAnalyzer", "typescript", <<E_d_ts>>),
      Analyzer(<<"tx1", 0>>, "TextAnalyzer", "TextAnalyzer", "", <<E_txt>>) }

-----------------------------------------------------------------------------
(* Python dicts *)

\* k in d, for a dict kept as a sequence of [key, val] in insertion order
DictHas(d, k) == \E i \in 1..Len(d) : d[i].key = k

\* d.get(k)
DictGet(d, k) ==
    IF DictHas(d, k) THEN Some(d[CHOOSE i \in 1..Len(d) : d[i].key = k].val) ELSE None

\* d[k] = v: an existing key keeps its position, a new key goes last
DictSet(d, k, v) ==
    IF DictHas(d, k)
    THEN [i \in 1..Len(d) |-> IF d[i].key = k THEN [key |-> k, val |-> v] ELSE d[i]]
    ELSE Append(d, [key |-> k, val |-> v])

\* list(d.values())
DictValues(d) == [i \in 1..Len(d) |-> d[i].val]

\* set(d.keys())
DictKeys(d) == {d[i].key : i \in 1..Len(d)}

\* m.get(k) for a dict kept as a function
MapGet(m, k) == IF k \in DOMAIN m THEN Some(m[k]) ELSE None

\* m[k] = v
MapSet(m, k, v) == (k :> v) @@ m

\* {}
EmptyMap == [k \in {} |-> ""]

\* A registry object: the two dicts of AnalyzerRegistry
Registry(an, em) == [analyzers |-> an, extension_map |-> em]

\* AnalyzerRegistry.__init__
EmptyRegistry == Registry(<<>>, EmptyMap)

-----------------------------------------------------------------------------
(* AnalyzerRegistry.register *)

\* lines 42-43: for ext in analyzer.supported_extensions: _extension_map[ext] = language
RECURSIVE map_extensions(_, _, _, _)
map_extensions(em, exts, i, language) ==
    IF i > Len(exts) THEN em
    ELSE map_extensions(MapSet(em, exts[i], language), exts, i + 1, language)

\* register with a defect: a language name that is already registered keeps
\* its analyzer.  C6 does not hold of it.
register_keepfirst(self, analyzer) ==
    LET language == analyzer.language_name
    IN  Registry(IF DictHas(self.analyzers, language) THEN self.analyzers
                 ELSE DictSet(self.analyzers, language, analyzer),
                 map_extensions(self.extension_map, analyzer.supported_extensions, 1, language))

\* AnalyzerRegistry.register
register(self, analyzer) ==
    LET language == analyzer.language_name
    IN  Registry(DictSet(self.analyzers, language, analyzer),
                 map_extensions(self.extension_map, analyzer.supported_extensions, 1, language))

-----------------------------------------------------------------------------
(* Lookups *)

\* `if language:` on an Optional[str]: None and "" are both falsy
Truthy(language) == language # None /\ language[1] # ""

\* AnalyzerRegistry.get_analyzer_for_file
get_analyzer_for_file(self, path) ==
    LET e        == derive_ext(path)
        language == MapGet(self.extension_map, e)
    IN  IF Truthy(language) THEN DictGet(self.analyzers, language[1]) ELSE None

\* AnalyzerRegistry.get_analyzer_by_language
get_analyzer_by_language(self, language) == DictGet(self.analyzers, language)

\* AnalyzerRegistry.list_supported_extensions
list_supported_extensions(self) == self.extension_map

\* lines 74-78: one step per value of _analyzers, in dict order
RECURSIVE list_analyzers_loop(_, _, _)
list_analyzers_loop(values, i, result) ==
    IF i > Len(values) THEN result
    ELSE IF values[i].class_name \notin DOMAIN result
         THEN list_analyzers_loop(values, i + 1,
                  MapSet(result, values[i].class_name,
                         <<>> \o values[i].supported_extensions))
         ELSE list_analyzers_loop(values, i + 1,
                  MapSet(result, values[i].class_name,
                         result[values[i].class_name] \o values[i].supported_extensions))

\* list_analyzers with a defect: it groups by language name.  C9 does not
\* hold of it.
list_analyzers_bylang(self) ==
    [l \in DictKeys(self.analyzers) |-> DictGet(self.analyzers, l)[1].supported_extensions]

\* AnalyzerRegistry.list_analyzers
list_analyzers(self) == list_analyzers_loop(DictValues(self.analyzers), 1, EmptyMap)

-----------------------------------------------------------------------------
(* register_defaults *)

\* DefaultAnalyzer(extensions, language) of base.py: a generic analyzer whose
\* supported_extensions and language_name are its two constructor arguments.
\* epoch tells the instances of one register_defaults call from those of another.
DefaultAnalyzer(extensions, language, epoch) ==
    Analyzer(<<language, epoch>>, "DefaultAnalyzer", "DefaultAnalyzer", language, extensions)

\* lines 155-157
skip_languages == {"typescript", "javascript", "python", "java"}

\* lines 159-183
defaults(epoch) ==
    <<
       DefaultAnalyzer(<<<<".", "h", "t", "m", "l">>, <<".", "h", "t", "m">>>>, "html", epoch),
       DefaultAnalyzer(<<<<".", "c", "s", "s">>, <<".", "s", "c", "s", "s">>, <<".", "s", "a", "s", "s">>>>, "css", epoch),
       DefaultAnalyzer(<<<<".", "j", "s", "o", "n">>>>, "json", epoch),
       DefaultAnalyzer(<<<<".", "y", "a", "m", "l">>, <<".", "y", "m", "l">>>>, "yaml", epoch),
       DefaultAnalyzer(<<<<".", "t", "o", "m", "l">>>>, "toml", epoch),
       DefaultAnalyzer(<<<<".", "x", "m", "l">>>>, "xml", epoch),
       DefaultAnalyzer(<<<<".", "s", "h">>, <<".", "b", "a", "s", "h">>>>, "bash", epoch),
       DefaultAnalyzer(<<<<".", "c">>>>, "c", epoch),
       DefaultAnalyzer(<<<<".", "c", "p", "p">>, <<".", "c", "c">>, <<".", "c", "x", "x">>>>, "cpp", epoch),
       DefaultAnalyzer(<<<<".", "r", "s">>>>, "rust", epoch),
       DefaultAnalyzer(<<<<".", "g", "o">>>>, "go", epoch),
       DefaultAnalyzer(<<<<".", "r", "b">>>>, "ruby", epoch),
       DefaultAnalyzer(<<<<".", "p", "h", "p">>>>, "php", epoch),
       DefaultAnalyzer(<<<<".", "s", "w", "i", "f", "t">>>>, "swift", epoch),
       DefaultAnalyzer(<<<<".", "k", "t">>, <<".", "k", "t", "s">>>>, "kotlin", epoch),
       DefaultAnalyzer(<<<<".", "s", "c", "a", "l", "a">>>>, "scala", epoch)
    >>

\* A registry with the log of the register calls made on it
Logged(reg, log) == [reg |-> reg, log |-> log]

\* One call of AnalyzerRegistry.register, recorded in the log
register_logged(st, analyzer) ==
    Logged(register(st.reg, analyzer), Append(st.log, analyzer))

\* line 187-188: one iteration of the loop over defaults
register_default(st, analyzer) ==
    IF analyzer.language_name \notin skip_languages
    THEN register_logged(st, analyzer) ELSE st

\* lines 185-188: for analyzer in defaults.  Python finishes one iteration
\* before it starts the next; looking at the log after each iteration (it only
\* grows, so the test cannot fail) makes the evaluation do the same instead of
\* nesting the sixteen registrations.
RECURSIVE register_defaults_loop(_, _, _)
register_defaults_loop(st, ds, i) ==
    IF i > Len(ds) THEN st
    ELSE LET after == register_default(st, ds[i])
         IN  IF Len(after.log) >= Len(st.log)
             THEN register_defaults_loop(after, ds, i + 1)
             ELSE st

\* register_defaults with a defect: it starts from a fresh registry.  C7 does
\* not hold of it.
register_defaults_reset(st, epoch) ==
    register_defaults_loop(Logged(EmptyRegistry, st.log), defaults(epoch), 1)

\* register_defaults
register_defaults(st, epoch) == register_defaults_loop(st, defaults(epoch), 1)

-----------------------------------------------------------------------------
(* The plugin directories auto_discover may be pointed at *)

PY == <<".", "p", "y">>

N_init   == <<"_", "_", "i", "n", "i", "t", "_", "_", ".", "p", "y">>
N_good   == <<"g", "o", ".", "p", "y">>
N_bad    == <<"b", "a", "d", ".", "p", "y">>
N_half   == <<"z", "i", "g", ".", "p", "y">>
N_readme == <<"R", "E", "A", "D", "M", "E">>
N_plug   == <<"p", "l", "u", "g", ".", "p", "y">>
N_broken == <<"b", "r", "o", "k", "e", "n", ".", "p", "y">>

\* Path(__file__).parent / "languages"
DefaultDir == "languages"

\* The path argument: None, or a directory name
PathArgs == {None, Some("plugins"), Some("missing")}

\* path.exists()
exists(dir) == dir \in {"languages", "plugins"}

\* The entries of a directory
listdir(dir) ==
    CASE dir = "languages" -> {N_init, N_good, N_bad, N_half, N_readme}
      [] dir = "plugins"   -> {N_plug, N_broken}
      [] OTHER             -> {}

\* One name that dir(module) yields.  kind is "base" for LanguageAnalyzer itself,
\* "subclass" for a strict subclass of it, "other" for anything else.
Attr(name, cls, kind, ctor_raises, language_name, supported_extensions) ==
    [name |-> name, cls |-> cls, kind |-> kind, ctor_raises |-> ctor_raises,
     language_name |-> language_name, supported_extensions |-> supported_extensions]

\* A plugin source file: whether executing it raises, and dir(module) in its
\* (sorted) order.
Module(raises, attrs) == [raises |-> raises, attrs |-> attrs]

BaseAttr == Attr("LanguageAnalyzer", "base.LanguageAnalyzer", "base", FALSE, "", <<>>)

source(dir, name) ==
    CASE dir = "languages" /\ name = N_good ->
           Module(FALSE, << Attr("GoAnalyzer", "languages.go.GoAnalyzer", "subclass", FALSE, "go", <<E_go>>),
                            BaseAttr,
                            Attr("logger", "logging.Logger", "other", FALSE, "", <<>>) >>)
      [] dir = "languages" /\ name = N_half ->
           Module(FALSE, << BaseAttr,
                            Attr("ZigAnalyzer", "languages.zig.ZigAnalyzer", "subclass", FALSE, "zig", <<E_zig>>),
                            Attr("ZigBuildAnalyzer", "languages.zig.ZigBuildAnalyzer", "subclass", TRUE, "zigbuild", <<E_zig>>),
                            Attr("ZonAnalyzer", "languages.zig.ZonAnalyzer", "subclass", FALSE, "zon", <<E_zig>>) >>)
      [] dir = "plugins" /\ name = N_plug ->
           Module(FALSE, << BaseAttr,
                            Attr("PlugAnalyzer", "plugins.plug.PlugAnalyzer", "subclass", FALSE, "plug", <<E_plg>>) >>)
      [] dir = "languages" /\ name = N_init -> Module(FALSE, <<>>)
      [] OTHER -> Module(TRUE, <<>>)

\* s.endswith(suffix)
endswith(s, suffix) ==
    Len(s) >= Len(suffix) /\ SubSeq(s, Len(s) - Len(suffix) + 1, Len(s)) = suffix

\* s.startswith(prefix)
startswith(s, prefix) ==
    Len(s) >= Len(prefix) /\ SubSeq(s, 1, Len(prefix)) = prefix

\* path.glob("*.py"), as a set: the order of the scan is the file system's
glob_py(dir) == {n \in listdir(dir) : endswith(n, PY)}

\* py_file.stem of a name that matched *.py
stem(name) == SubSeq(name, 1, Len(name) - Len(PY))

\* The orders in which a directory scan may yield a set of names
Orders(S) ==
    {o \in [1..Cardinality(S) -> S] : \A i, j \in 1..Cardinality(S) : o[i] = o[j] => i = j}

-----------------------------------------------------------------------------
(* AnalyzerRegistry.auto_discover *)

\* importlib.import_module("codesitter.analyzers.languages." + stem): the module
\* of that name in the languages package, whatever directory was scanned.
\* None stands for the import raising.
import_module(module_stem) ==
    IF (module_stem \o PY) \in listdir(DefaultDir)
       /\ ~source(DefaultDir, module_stem \o PY).raises
    THEN Some(source(DefaultDir, module_stem \o PY))
    ELSE None

\* attr(): a new instance of the class named by an attribute
Instantiate(attr, epoch) ==
    Analyzer(<<attr.name, epoch>>, attr.cls, attr.name,
             attr.language_name, attr.supported_extensions)

\* lines 109-117: for attr_name in dir(module); a constructor that raises ends
\* the loop (the except clause of line 119 encloses it)
RECURSIVE scan_module(_, _, _, _)
scan_module(st, attrs, i, epoch) ==
    IF i > Len(attrs) THEN st
    ELSE IF attrs[i].kind = "subclass"
         THEN IF attrs[i].ctor_raises THEN st
              ELSE scan_module(register_logged(st, Instantiate(attrs[i], epoch)),
                               attrs, i + 1, epoch)
         ELSE scan_module(st, attrs, i + 1, epoch)

\* lines 99-120: for py_file in path.glob("*.py")
RECURSIVE scan_files(_, _, _, _, _)
scan_files(st, dir, order, i, epoch) ==
    IF i > Len(order) THEN st
    ELSE IF startswith(order[i], <<"_", "_">>)
         THEN scan_files(st, dir, order, i + 1, epoch)
         ELSE LET module == import_module(stem(order[i]))
              IN  scan_files(
                      IF module = None THEN st
                      ELSE scan_module(st, module[1].attrs, 1, epoch),
                      dir, order, i + 1, epoch)

\* The directory auto_discover scans for a path argument (lines 89-92)
scan_dir(path) == IF path = None THEN DefaultDir ELSE path[1]

\* AnalyzerRegistry.auto_discover; order is the order in which glob yields the files
auto_discover(st, path, order, epoch) ==
    IF ~exists(scan_dir(path)) THEN st
    ELSE scan_files(st, scan_dir(path), order, 1, epoch)

-----------------------------------------------------------------------------
(* The registry as a state machine *)

self == Registry(analyzers, extension_map)

\* File names the pipeline asks about
LookupPaths ==
    { upper(<<"x">> \o E_py), <<"x">> \o E_d_ts, <<"x">> \o E_txt,
      <<"m", "a", "i", "n">> \o E_go }

\* Language names the pipeline asks about
LookupLanguages == {"python", "lua"}

Op(op, arg, result, before) == [op |-> op, arg |-> arg, result |-> result, before |-> before]

Init ==
    /\ analyzers = EmptyRegistry.analyzers
    /\ extension_map = EmptyRegistry.extension_map
    /\ regLog = <<>>
    /\ lastOp = Op("init", None, None, EmptyRegistry)
    /\ nOps = 0
    /\ filename = <<>>
    /\ ext = None
    /\ pc = "idle"

\* The registry and the log after a registering call
Commit(st) ==
    /\ analyzers' = st.reg.analyzers
    /\ extension_map' = st.reg.extension_map
    /\ regLog' = st.log
    /\ nOps' = nOps + 1

\* register_analyzer(analyzer)
RegisterAnalyzer(analyzer) ==
    /\ nOps < MaxOps
    /\ Commit(register_logged(Logged(self, regLog), analyzer))
    /\ lastOp' = Op("register", analyzer, None, self)
    /\ UNCHANGED splitVars

\* register_defaults()
RegisterDefaults ==
    /\ nOps < MaxOps
    /\ Commit(register_defaults(Logged(self, regLog), nOps + 1))
    /\ lastOp' = Op("register_defaults", None, None, self)
    /\ UNCHANGED splitVars

\* auto_discover(path)
AutoDiscover(path, order) ==
    /\ nOps < MaxOps
    /\ Commit(auto_discover(Logged(self, regLog), path, order, nOps + 1))
    /\ lastOp' = Op("auto_discover", path, None, self)
    /\ UNCHANGED splitVars

\* get_analyzer(filename)
GetAnalyzerForFile(path) ==
    /\ lastOp' = Op("get_analyzer_for_file", path, get_analyzer_for_file(self, path), self)
    /\ UNCHANGED <<analyzers, extension_map, regLog, nOps>>
    /\ UNCHANGED splitVars

\* get_registry().get_analyzer_by_language(language)
GetAnalyzerByLanguage(language) ==
    /\ lastOp' = Op("get_analyzer_by_language", language,
                    get_analyzer_by_language(self, language), self)
    /\ UNCHANGED <<analyzers, extension_map, regLog, nOps>>
    /\ UNCHANGED splitVars

\* get_registry().list_supported_extensions()
ListSupportedExtensions ==
    /\ lastOp' = Op("list_supported_extensions", None, list_supported_extensions(self), self)
    /\ UNCHANGED <<analyzers, extension_map, regLog, nOps>>
    /\ UNCHANGED splitVars

\* get_registry().list_analyzers()
ListAnalyzers ==
    /\ lastOp' = Op("list_analyzers", None, list_analyzers(self), self)
    /\ UNCHANGED <<analyzers, extension_map, regLog, nOps>>
    /\ UNCHANGED splitVars

Next ==
    \/ \E analyzer \in CustomAnalyzers : RegisterAnalyzer(analyzer)
    \/ RegisterDefaults
    \/ \E path \in PathArgs : \E order \in Orders(glob_py(scan_dir(path))) :
           AutoDiscover(path, order)
    \/ \E path \in LookupPaths : GetAnalyzerForFile(path)
    \/ \E language \in LookupLanguages : GetAnalyzerByLanguage(language)
    \/ ListSupportedExtensions
    \/ ListAnalyzers

Spec == Init /\ [][Next]_vars

-----------------------------------------------------------------------------
(* The extension derivation on its own *)

PathChars == {"a", "B", ".", "/"}

\* Every path of at most MaxPathLen characters
Paths == UNION {[1..n -> PathChars] : n \in 0..MaxPathLen}

SplitInit ==
    /\ analyzers = EmptyRegistry.analyzers
    /\ extension_map = EmptyRegistry.extension_map
    /\ regLog = <<>>
    /\ lastOp = Op("init", None, None, EmptyRegistry)
    /\ nOps = 0
    /\ filename \in Paths
    /\ ext = None
    /\ pc = "start"

\* line 55 of get_analyzer_for_file
DeriveExt ==
    /\ pc = "start"
    /\ ext' = Some(derive_ext(filename))
    /\ pc' = "done"
    /\ UNCHANGED filename
    /\ UNCHANGED regVars

SplitNext == DeriveExt

SplitSpec == SplitInit /\ [][SplitNext]_vars

-----------------------------------------------------------------------------
(* Vocabulary of the properties *)

\* The elements of a sequence
Range(s) == {s[i] : i \in 1..Len(s)}

\* The analyzers currently held in _analyzers
Registered == Range(DictValues(analyzers))

\* "x" + e
FileOf(e) == <<"x">> \o e

\* The most recent entry of a register log that satisfies a test
LastWhere(log, Test(_)) ==
    IF \E i \in 1..Len(log) : Test(log[i])
    THEN Some(log[CHOOSE i \in 1..Len(log) :
                    Test(log[i]) /\ \A j \in (i+1)..Len(log) : ~Test(log[j])])
    ELSE None

IsDefault(a) == a.cls = "DefaultAnalyzer"

\* Every language name that occurs anywhere in a run, and one that never does
LanguageNames ==
    {a.language_name : a \in CustomAnalyzers} \cup {a.language_name : a \in Range(regLog)}
        \cup skip_languages \cup LookupLanguages

-----------------------------------------------------------------------------
(* C1 *)

\* C1: every (ext, lang) pair of extensionIndex is backed by the current
\* analyzer: analyzers[lang] exists and its supported_extensions contain ext.
C1_ExtensionIndexBacked ==
    \A e \in DOMAIN extension_map :
        /\ DictHas(analyzers, extension_map[e])
        /\ e \in Range(DictGet(analyzers, extension_map[e])[1].supported_extensions)

-----------------------------------------------------------------------------
(* C2 *)

\* An extension of the analyzer contract: dot-prefixed and lower-case
ContractExtension(e) == Len(e) >= 1 /\ e[1] = "." /\ lower(e) = e

\* C2: immediately after register(a), for an analyzer a with a non-empty
\* language name and every contract extension e of a, lookupByFilename("x" + e)
\* returns a, and so does the lookup of the same name in upper case.
C2_RegisterThenLookup ==
    (lastOp.op = "register" /\ lastOp.arg.language_name # "") =>
        \A e \in Range(lastOp.arg.supported_extensions) :
            ContractExtension(e) =>
                /\ get_analyzer_for_file(self, FileOf(e)) = Some(lastOp.arg)
                /\ get_analyzer_for_file(self, upper(FileOf(e))) = Some(lastOp.arg)

-----------------------------------------------------------------------------
(* C3 *)

\* C3: for every extension e that a currently registered analyzer claims (and
\* that a file name can carry, mapped to a non-empty language name), the lookup
\* of a file with extension e returns the analyzer registered most recently
\* among those whose supported_extensions contain e.
C3_LastClaimantWins ==
    \A e \in DOMAIN extension_map :
        ( /\ \E a \in Registered : e \in Range(a.supported_extensions)
          /\ derive_ext(FileOf(e)) = e
          /\ extension_map[e] # "" ) =>
            LET Claims(a) == e \in Range(a.supported_extensions)
            IN  get_analyzer_for_file(self, FileOf(e)) = LastWhere(regLog, Claims)

-----------------------------------------------------------------------------
(* C4 *)

\* C4: after the first register_defaults, every language name that had a custom
\* analyzer before the call still maps to that analyzer, and every file
\* extension of it that the lookup resolved to it before still does.
C4_DefaultsKeepCustom ==
    ( /\ lastOp.op = "register_defaults"
      /\ \A a \in Range(DictValues(lastOp.before.analyzers)) : ~IsDefault(a) ) =>
        \A a \in Range(DictValues(lastOp.before.analyzers)) :
            /\ get_analyzer_by_language(self, a.language_name) = Some(a)
            /\ \A e \in Range(a.supported_extensions) :
                   get_analyzer_for_file(lastOp.before, FileOf(e)) = Some(a) =>
                       get_analyzer_for_file(self, FileOf(e)) = Some(a)

-----------------------------------------------------------------------------
(* C5 *)

\* A plugin file that loads and whose analyzer classes all construct
WellFormed(dir, name) ==
    /\ ~source(dir, name).raises
    /\ \E a \in Range(source(dir, name).attrs) : a.kind = "subclass"
    /\ \A a \in Range(source(dir, name).attrs) : a.kind = "subclass" => ~a.ctor_raises

\* The plugin files of a directory: *.py without the double-underscore marker
PluginFiles(dir) == {n \in glob_py(dir) : ~startswith(n, <<"_", "_">>)}

\* C5: after discover(directory) of a directory that holds a well-formed plugin
\* file and one whose module raises on load, every analyzer class of every
\* well-formed plugin file has an instance of this call registered under its
\* language name.
C5_DiscoverIsolatesFailures ==
    LET dir == scan_dir(lastOp.arg)
    IN  ( /\ lastOp.op = "auto_discover"
          /\ \E n \in PluginFiles(dir) : WellFormed(dir, n)
          /\ \E n \in PluginFiles(dir) : source(dir, n).raises ) =>
            \A n \in PluginFiles(dir) : WellFormed(dir, n) =>
                \A a \in Range(source(dir, n).attrs) : a.kind = "subclass" =>
                    get_analyzer_by_language(self, a.language_name)
                        = Some(Instantiate(a, nOps))

-----------------------------------------------------------------------------
(* C6 *)

\* C6: lookupByLanguage(name) returns the analyzer most recently passed to
\* register under that name (so the second of two registered under one name,
\* never the first, and the one just registered right after register), and
\* absent for a name never registered.
C6_LookupByLanguageLatest ==
    /\ \A l \in LanguageNames :
           LET Named(a) == a.language_name = l
           IN  get_analyzer_by_language(self, l) = LastWhere(regLog, Named)
    /\ lastOp.op = "register" =>
           get_analyzer_by_language(self, lastOp.arg.language_name) = Some(lastOp.arg)
    /\ lastOp.op = "get_analyzer_by_language" =>
           LET Named(a) == a.language_name = lastOp.arg
           IN  lastOp.result = LastWhere(regLog, Named)

\* Two instances were registered under one name and the lookup yields the second
C6_Witness ==
    \E i, j \in 1..Len(regLog) :
        /\ i < j
        /\ regLog[i].language_name = regLog[j].language_name
        /\ regLog[i].id # regLog[j].id
        /\ \A k \in (j+1)..Len(regLog) : regLog[k].language_name # regLog[j].language_name
        /\ lastOp.op = "get_analyzer_by_language"
        /\ lastOp.arg = regLog[j].language_name
        /\ lastOp.result = Some(regLog[j])

-----------------------------------------------------------------------------
(* C7 *)

\* C7: after register_defaults, called once or several times, every excluded
\* language name under which a custom analyzer was registered still maps to
\* the custom analyzer registered last under it.
C7_ExcludedLanguagesKept ==
    lastOp.op = "register_defaults" =>
        \A l \in skip_languages :
            LET Custom(a) == a.language_name = l /\ ~IsDefault(a)
            IN  LastWhere(regLog, Custom) # None =>
                    get_analyzer_by_language(self, l) = LastWhere(regLog, Custom)

\* register_defaults ran a second time over a registry holding a custom python analyzer
C7_Witness ==
    /\ lastOp.op = "register_defaults"
    /\ \E a \in Range(DictValues(lastOp.before.analyzers)) : IsDefault(a)
    /\ \E a \in CustomAnalyzers :
           /\ a.language_name = "python"
           /\ get_analyzer_by_language(lastOp.before, "python") = Some(a)
           /\ get_analyzer_by_language(self, "python") = Some(a)

-----------------------------------------------------------------------------
(* C8 *)

\* The final path segment: the suffix after the last "/"
FinalSegment(p) ==
    CHOOSE seg \in {SubSeq(p, k, Len(p)) : k \in 1..(Len(p) + 1)} :
        /\ "/" \notin Range(seg)
        /\ Len(seg) < Len(p) => p[Len(p) - Len(seg)] = "/"

\* The suffix of a segment from its last "." on; empty without a "."
FromLastDot(seg) ==
    IF "." \in Range(seg)
    THEN CHOOSE suf \in {SubSeq(seg, k, Len(seg)) : k \in 1..Len(seg)} :
             suf[1] = "." /\ "." \notin Range(Tail(suf))
    ELSE <<>>

\* C8 as stated: the key looked up is the final segment from its last "." on,
\* lower-cased, and empty when the final segment has no ".".
C8_LastDotOfFinalSegment ==
    pc = "done" => ext = Some(lower(FromLastDot(FinalSegment(filename))))

\* A segment whose last "." is preceded by nothing but dots
OnlyLeadingDots(seg) ==
    LET suf == FromLastDot(seg)
    IN  \A k \in 1..(Len(seg) - Len(suf)) : seg[k] = "."

\* C8 amended: as stated, except that the key is also empty when every
\* character of the final segment before its last "." is itself a ".".
C8_LastDotUnlessLeading ==
    pc = "done" =>
        ext = Some(IF OnlyLeadingDots(FinalSegment(filename)) THEN <<>>
                   ELSE lower(FromLastDot(FinalSegment(filename))))

\* A dot-file below a directory was derived to the empty extension
C8_Witness ==
    /\ pc = "done"
    /\ filename = <<"a", "/", ".", "B">>
    /\ ext = Some(<<>>)

-----------------------------------------------------------------------------
(* C9 *)

\* The concatenation of the supported_extensions of the analyzers of a
\* sequence whose field (cls or class_name) has a given value
RECURSIVE ExtensionsOf(_, _, _)
ExtensionsOf(seq, field, value) ==
    IF Len(seq) = 0 THEN <<>>
    ELSE (IF Head(seq)[field] = value THEN Head(seq).supported_extensions ELSE <<>>)
             \o ExtensionsOf(Tail(seq), field, value)

\* C9 as stated: one entry per distinct implementation type among the
\* registered analyzers, each listing the extensions of the analyzers of that type.
C9_GroupedByType ==
    lastOp.op = "list_analyzers" =>
        /\ Cardinality(DOMAIN lastOp.result) = Cardinality({a.cls : a \in Registered})
        /\ \A ty \in {a.cls : a \in Registered} :
               \E n \in DOMAIN lastOp.result :
                   /\ \E a \in Registered : a.cls = ty /\ a.class_name = n
                   /\ lastOp.result[n] = ExtensionsOf(DictValues(analyzers), "cls", ty)

\* C9 amended: one entry per distinct class name among the registered
\* analyzers, each listing, in the order of _analyzers, the extensions of
\* exactly the registered analyzers whose type carries that name.
C9_GroupedByClassName ==
    lastOp.op = "list_analyzers" =>
        /\ DOMAIN lastOp.result = {a.class_name : a \in Registered}
        /\ \A n \in DOMAIN lastOp.result :
               lastOp.result[n] = ExtensionsOf(DictValues(analyzers), "class_name", n)

\* list_analyzers ran with two types of one class name registered, and with
\* two language names backed by one type
C9_Witness ==
    /\ lastOp.op = "list_analyzers"
    /\ \E a, b \in Registered : a.cls # b.cls /\ a.class_name = b.class_name
    /\ \E a, b \in Registered : a.cls = b.cls /\ a.language_name # b.language_name
    /\ Cardinality(DOMAIN lastOp.result) < Cardinality({a.cls : a \in Registered})

-----------------------------------------------------------------------------
(* C10 *)

\* C10: a lookup by file name returns analyzers[extensionIndex[ext]], never
\* absent, when the derived extension is a key of extensionIndex, and absent
\* exactly when it is not; it changes neither mapping.
C10_AbsentOnlyWithoutMapping ==
    /\ \A path \in LookupPaths \cup {FileOf(e) : e \in DOMAIN extension_map} :
           LET e == derive_ext(path)
           IN  IF e \in DOMAIN extension_map
               THEN /\ get_analyzer_for_file(self, path) # None
                    /\ get_analyzer_for_file(self, path)
                           = DictGet(analyzers, extension_map[e])
               ELSE get_analyzer_for_file(self, path) = None
    /\ lastOp.op = "get_analyzer_for_file" =>
           lastOp.before = Registry(analyzers, extension_map)

====
